---- MODULE Spec2Model ----
(***************************************************************************)
(* Model of the meeting bot's transcript reconciliation (app/page.tsx)     *)
(* and session analytics (lib/analytics.ts).                               *)
(*                                                                         *)
(* Segment times are in milliseconds.  Date.now() is the variable now,     *)
(* advanced by Tick; it starts at 1 because a wall-clock stamp is never 0. *)
(***************************************************************************)
EXTENDS Integers, Sequences, FiniteSets, TLC

\* ---------------------------------------------------------------- bounds
MaxEvents == 4      \* recognition events delivered in one run of StreamSpec
MaxLiveEvents == 2  \* recognition events delivered in one run of Spec
MaxClock == 2       \* largest value of Date.now()
MaxHostCalls == 3   \* joinMeeting / closeMeeting calls to the Electron host in one run
MaxStartStep == 3   \* segment start times are 0, 500, ..., 500 * MaxStartStep
MaxCloses == 4      \* close events of one TranscriptionService in one run of ClientSpec
MaxMessages == 2    \* inbound messages in one run of ClientSpec
MaxChunks == 2      \* chunks passed to sendAudio in one run of ClientSpec
MaxApiCalls == 4    \* calls of AnalyticsService methods in one run of ApiSpec
MaxAggEvents == 3   \* recognition events delivered in one run of AggregatorSpec
MaxLifecycleCalls == 3   \* joinMeeting / closeMeeting calls in one run of LifecycleSpec
MaxLifecycleCloses == 2  \* close events in one run of LifecycleSpec
MaxServiceCalls == 3      \* calls of AnalyticsService methods in one run of ServiceSpec

\* ---------------------------------------------------------------- constants of the code
MergeWindowMs == 1000
MaxReconnectAttempts == 3
BackoffMs == 2000
IntentionalClose == 1000

Null == -1

Speakers == {0, 1}
StartTimes == {500 * k : k \in 0..MaxStartStep}
\* what the backend says about an utterance: an interim result, and a later
\* result of the same utterance that has more text and ends later
Results ==
  {[duration |-> 2000, text |-> <<"hello", "everyone">>],
   [duration |-> 2500, text |-> <<"hello", "everyone", "welcome">>]}

SegmentOf(sp, st, r) ==
  [speakerIndex |-> sp, startTime |-> st, endTime |-> st + r.duration, text |-> r.text]

\* the events of StreamSpec: speaker 0 with every result, speaker 1 with the
\* interim result only
Segments ==
  {SegmentOf(0, st, r) : st \in StartTimes, r \in Results}
  \cup {SegmentOf(1, st, [duration |-> 2000, text |-> <<"hello", "everyone">>]) :
          st \in StartTimes}

\* the events of Spec: one duration and one text, to leave room for the
\* interleavings of the application's handlers
LiveSegments ==
  {[speakerIndex |-> 0, startTime |-> st, endTime |-> st + 2000,
    text |-> <<"hello", "everyone">>] : st \in {0, 500}}
  \cup {[speakerIndex |-> 1, startTime |-> 0, endTime |-> 2000,
          text |-> <<"hello", "everyone">>]}

NoSegment == [speakerIndex |-> Null, startTime |-> 0, endTime |-> 0, text |-> <<>>]

UnknownId(i) == <<"unknown", i>>

VARIABLES
  now,             \* Date.now()
  electronAPI,     \* window.electronAPI is defined
  isInMeeting,     \* appState.isInMeeting
  isRecording,     \* appState.isRecording
  streamOpen,      \* recognition events / recorder chunks can still be delivered
  transcript,      \* React state: the reconciled transcript
  participants,    \* AnalyticsService.participants (Map userId -> ParticipantData)
  speakerMapping,  \* AnalyticsService.speakerMapping (Map speakerIndex -> userId)
  currentSession,  \* AnalyticsService.currentSession: <<>> is null, <<s>> a session
  joinPending,     \* handleJoinMeeting calls suspended at await joinMeeting
  leavePending,    \* handleLeaveMeeting calls suspended at await closeMeeting
  exports,         \* number of downloadExport calls made
  hostCalls,       \* number of joinMeeting / closeMeeting calls made to the host
  markedLeft,      \* userIds markParticipantLeft was called for
  lastSegment,     \* argument of the latest handleTranscriptUpdate call
  nEvents,         \* number of handleTranscriptUpdate calls made
  botResponses,    \* React state: the responses of the bot, in order
  \* --- TranscriptionService (lib/transcription.ts)
  ws,              \* this.ws is not null
  readyState,      \* readyState of the newest WebSocket ("none" before the first)
  isConnected,     \* this.isConnected
  reconnectAttempts,  \* this.reconnectAttempts
  timer,           \* delay of the pending reconnect setTimeout, Null when none
  closeCalled,     \* close(1000) was called on the newest WebSocket
  transcriptionFailed,  \* appState.status is 'Transcription failed'
  sent,            \* chunks handed to WebSocket.send, in order
  disconnectCalled,   \* disconnect() was called on this instance
  failures,        \* abnormal closes since the last open
  lastDelay,       \* delay of the latest reconnect that was scheduled
  connErrors,      \* error callbacks made for the connection
  parseErrors,     \* error callbacks made for a message
  lastMsg,         \* kind of the latest inbound message
  nMessages,       \* inbound messages handled
  lastChunk,       \* the latest chunk passed to sendAudio and the readyState it met
  nCloses,         \* close events handled
  \* --- AnalyticsService export (lib/analytics.ts)
  apiCalls,        \* calls made to the AnalyticsService in ApiSpec
  lastExport,      \* the latest export request and what it produced
  lastCall,        \* the latest addParticipant call and its arguments
  \* --- Electron host (main process) and handleStartAnalysis
  requests,        \* join-meeting requests the host has not handled yet: their URLs
  replies,         \* answers of the host the renderer has not handled yet
  meetingWindow,   \* windows.meetingWindow is not null
  joinedUrl,       \* URL of the join that last set isInMeeting, <<"none">> before
  recorder,        \* state of the MediaRecorder: "none", "recording", "inactive"
  startPending,    \* handleStartAnalysis is suspended in startAudioCapture
  apiKeySet,       \* NEXT_PUBLIC_DEEPGRAM_API_KEY is configured
  \* --- mediaRecorder.ondataavailable / processAudioChunk
  delivered,       \* chunks the recorder delivered
  pendingChunks    \* chunks whose arrayBuffer() has not resolved yet

clientVars == <<ws, readyState, isConnected, reconnectAttempts, timer, closeCalled,
                transcriptionFailed, sent, disconnectCalled,
                failures, lastDelay, connErrors, parseErrors, lastMsg, nMessages,
                lastChunk, nCloses>>

exportVars == <<apiCalls, lastExport, lastCall>>

hostVars == <<requests, replies, meetingWindow, joinedUrl, recorder, startPending,
              apiKeySet>>

audioVars == <<delivered, pendingChunks>>

vars == <<now, electronAPI, isInMeeting, isRecording, streamOpen, transcript,
          participants, speakerMapping, currentSession, joinPending,
          leavePending, exports, hostCalls, markedLeft, lastSegment, nEvents,
          botResponses, clientVars, exportVars, hostVars, audioVars>>

uiVars == <<isInMeeting, isRecording, streamOpen, joinPending, leavePending>>
analyticsVars == <<participants, speakerMapping, currentSession, exports,
                   hostCalls, markedLeft>>
eventVars == <<transcript, lastSegment, nEvents, botResponses>>

\* ---------------------------------------------------------------- helpers
Abs(x) == IF x < 0 THEN -x ELSE x

\* JavaScript truthiness of a nullable timestamp: null and 0 are falsy
Falsy(t) == t = Null \/ t = 0

RECURSIVE SumDurations(_)
SumDurations(s) ==
  IF s = <<>> THEN 0
  ELSE (Head(s).endTime - Head(s).startTime) + SumDurations(Tail(s))

RECURSIVE SumOver(_, _)
SumOver(S, f) ==
  IF S = {} THEN 0
  ELSE LET x == CHOOSE y \in S : TRUE IN f[x] + SumOver(S \ {x}, f)

\* ---------------------------------------------------------------- text
\* A text is the sequence of its pieces between single spaces (text.split(' ')):
\* <<"hello", "", "world">> is "hello  world" and <<"">> is the empty string.
\* Spell gives the characters of a piece.
Spell(w) ==
  CASE w = "" -> <<>>
    [] w = "hello" -> <<"h", "e", "l", "l", "o">>
    [] w = "everyone" -> <<"e", "v", "e", "r", "y", "o", "n", "e">>
    [] w = "welcome" -> <<"w", "e", "l", "c", "o", "m", "e">>
    [] w = "great" -> <<"g", "r", "e", "a", "t">>
    [] w = "bad" -> <<"b", "a", "d">>
    [] w = "we" -> <<"w", "e">>
    [] w = "said" -> <<"s", "a", "i", "d">>
    [] w = "it" -> <<"i", "t">>
    [] w = "hey" -> <<"h", "e", "y">>
    [] w = "Bot" -> <<"B", "o", "t">>
    [] w = "bot" -> <<"b", "o", "t">>
    [] w = "ai" -> <<"a", "i">>
    [] w = "assistant" -> <<"a", "s", "s", "i", "s", "t", "a", "n", "t">>
    [] w = "please" -> <<"p", "l", "e", "a", "s", "e">>
    [] w = "summary" -> <<"s", "u", "m", "m", "a", "r", "y">>
    [] w = "summarize" -> <<"s", "u", "m", "m", "a", "r", "i", "z", "e">>
    [] w = "who" -> <<"w", "h", "o">>
    [] w = "participants" -> <<"p", "a", "r", "t", "i", "c", "i", "p", "a", "n", "t", "s">>
    [] w = "time" -> <<"t", "i", "m", "e">>
    [] w = "duration" -> <<"d", "u", "r", "a", "t", "i", "o", "n">>

\* the characters of a text: its pieces joined by single spaces
RECURSIVE TextChars(_)
TextChars(text) ==
  IF text = <<>> THEN <<>>
  ELSE IF Len(text) = 1 THEN Spell(text[1])
  ELSE Spell(text[1]) \o <<" ">> \o TextChars(Tail(text))

\* String.prototype.toLowerCase, on the characters the texts have in upper case
LowerChar(c) == IF c = "B" THEN "b" ELSE c

ToLowerCase(chars) == [i \in 1..Len(chars) |-> LowerChar(chars[i])]

\* String.prototype.includes
Includes(chars, part) ==
  \E i \in 1..(Len(chars) - Len(part) + 1) : SubSeq(chars, i, i + Len(part) - 1) = part

\* ---------------------------------------------------------------- bot trigger
\* botTriggers of checkForBotMention
BotTriggers ==
  {<<"bot">>, <<"assistant">>, <<"ai">>, <<"hey", "bot">>, <<"bot", "please">>}

CheckForBotMention(text) ==
  \E trigger \in BotTriggers :
    Includes(ToLowerCase(TextChars(text)), TextChars(trigger))

\* Math.round(ms / 60000)
RoundedMinutes(ms) == (2 * ms + 60000) \div 120000

\* generateBotResponse(segment, context): which of the canned responses is
\* made, and the numbers it is filled with
GenerateBotResponse(text, context, t) ==
  LET lower == ToLowerCase(TextChars(text))
      Has(w) == Includes(lower, Spell(w))
      count == Cardinality({context[k].speakerIndex : k \in 1..Len(context)})
      duration == IF Len(context) > 0 THEN RoundedMinutes(t - context[1].startTime) ELSE 0
  IN IF Has("summary") \/ Has("summarize")
       THEN [kind |-> "summary", count |-> count, duration |-> duration]
     ELSE IF Has("who") \/ Has("participants")
       THEN [kind |-> "who", count |-> count, duration |-> 0]
     ELSE IF Has("time") \/ Has("duration")
       THEN [kind |-> "time", count |-> 0, duration |-> duration]
     ELSE [kind |-> "listening", count |-> 0, duration |-> 0]

\* the `transcript` handleBotResponse reads: handleTranscriptUpdate is made by
\* useCallback with no dependencies, so it keeps the handlers of the first
\* render, whose transcript is the initial state
ClosureTranscript == <<>>

\* ---------------------------------------------------------------- reconciler
\* mutant: the speaker is not compared
SameUtteranceAnySpeaker(s, segment) ==
  Abs(s.startTime - segment.startTime) < MergeWindowMs

SameUtterance(s, segment) ==
  /\ s.speakerIndex = segment.speakerIndex
  /\ Abs(s.startTime - segment.startTime) < MergeWindowMs

\* prev.findIndex(...): the first matching index, 0 when there is none
FindIndex(prev, segment) ==
  LET hits == {i \in 1..Len(prev) : SameUtterance(prev[i], segment)}
  IN IF hits = {} THEN 0 ELSE CHOOSE i \in hits : \A j \in hits : i <= j

\* mutant: a revision updates the slot's text and end but keeps its start time
ReconcileKeepStart(prev, segment) ==
  LET existingIndex == FindIndex(prev, segment)
  IN IF existingIndex # 0
       THEN [prev EXCEPT ![existingIndex].text = segment.text,
                         ![existingIndex].endTime = segment.endTime]
       ELSE Append(prev, segment)

\* mutant: every event is appended
ReconcileAlwaysAppend(prev, segment) == Append(prev, segment)

\* mutant: a revision takes the place of the slot it replaces but at the end
ReconcileMoveToEnd(prev, segment) ==
  LET existingIndex == FindIndex(prev, segment)
  IN IF existingIndex # 0
       THEN Append(SubSeq(prev, 1, existingIndex - 1)
                     \o SubSeq(prev, existingIndex + 1, Len(prev)), segment)
       ELSE Append(prev, segment)

Reconcile(prev, segment) ==
  LET existingIndex == FindIndex(prev, segment)
  IN IF existingIndex # 0
       THEN [prev EXCEPT ![existingIndex] = segment]
       ELSE Append(prev, segment)

\* ---------------------------------------------------------------- analytics
PositiveWords == {"good", "great", "excellent", "amazing", "fantastic",
                  "wonderful", "perfect", "love", "like", "happy", "pleased"}
NegativeWords == {"bad", "terrible", "awful", "horrible", "hate", "dislike",
                  "angry", "frustrated", "disappointed", "sad"}

RECURSIVE CountIn(_, _)
CountIn(words, S) ==
  IF words = <<>> THEN 0
  ELSE (IF Head(words) \in S THEN 1 ELSE 0) + CountIn(Tail(words), S)

\* score = (positive - negative) / total; score > 0.2 is 5 * (p - n) > p + n
AnalyzeSentiment(text) ==
  LET p == CountIn(text, PositiveWords)
      n == CountIn(text, NegativeWords)
  IN [overall |-> IF p + n > 0 /\ 5 * (p - n) > p + n THEN "positive"
                  ELSE IF p + n > 0 /\ 5 * (p - n) < -(p + n) THEN "negative"
                  ELSE "neutral",
      positive |-> p, negative |-> n]

NeutralSentiment == [overall |-> "neutral", positive |-> 0, negative |-> 0]

NewParticipant(userName, t) ==
  [userName |-> userName, joinTimestamp |-> t, leaveTimestamp |-> Null, transcript |-> <<>>,
   totalTimeAttended |-> 0, totalTimeSpoken |-> 0, sentiment |-> NeutralSentiment]

Put(f, k, v) == [x \in DOMAIN f \cup {k} |-> IF x = k THEN v ELSE f[x]]

\* mutant: the mapping is not consulted
ResolveUserPlaceholder(mapping, segment) == UnknownId(segment.speakerIndex)

\* speakerMapping.get(segment.speakerIndex) || `unknown_${segment.speakerIndex}`
ResolveUser(mapping, segment) ==
  IF segment.speakerIndex \in DOMAIN mapping
    THEN mapping[segment.speakerIndex]
    ELSE UnknownId(segment.speakerIndex)

\* segment.speaker, which processDeepgramResponse makes from the speaker index
SpeakerLabel(speakerIndex) == <<"Speaker", speakerIndex>>

\* addParticipant: the participants
ParticipantsWith(parts, userId, userName, t) ==
  IF userId \in DOMAIN parts THEN parts
  ELSE Put(parts, userId, NewParticipant(userName, t))

\* mutant: a new participant is not bound to the speaker index
MappingWithoutBinding(parts, mapping, userId, segment) == mapping

\* addParticipant as called from addTranscriptSegment: the speakerMapping
MappingWith(parts, mapping, userId, segment) ==
  IF userId \in DOMAIN parts THEN mapping
  ELSE Put(mapping, segment.speakerIndex, userId)

\* mutant: the speaker index is bound also when the participant exists
MappingBoundAnyway(parts, mapping, userId, speakerIndex) ==
  IF speakerIndex = Null THEN mapping ELSE Put(mapping, speakerIndex, userId)

\* addParticipant: the speakerMapping; an omitted speakerIndex is undefined
MappingAfterAdd(parts, mapping, userId, speakerIndex) ==
  IF userId \in DOMAIN parts \/ speakerIndex = Null THEN mapping
  ELSE Put(mapping, speakerIndex, userId)

\* mutant: the segment is pushed and its duration is not added
AddSegmentUntimed(parts, mapping, segment, t) ==
  LET userId == ResolveUser(mapping, segment)
      withUser == ParticipantsWith(parts, userId, SpeakerLabel(segment.speakerIndex), t)
  IN [withUser EXCEPT ![userId].transcript = Append(@, segment)]

AddSegmentToParticipants(parts, mapping, segment, t) ==
  LET userId == ResolveUser(mapping, segment)
      withUser == ParticipantsWith(parts, userId, SpeakerLabel(segment.speakerIndex), t)
  IN [withUser EXCEPT
        ![userId].transcript = Append(@, segment),
        ![userId].totalTimeSpoken = @ + (segment.endTime - segment.startTime)]

AddSegmentToSession(session, segment) ==
  IF session = <<>> THEN session
  ELSE <<[session[1] EXCEPT !.totalTranscript = Append(@, segment)]>>

UpdateSentiment(parts, userId, sentiment) ==
  IF userId \in DOMAIN parts
    THEN [parts EXCEPT ![userId].sentiment = sentiment]
    ELSE parts

NewSession(t) ==
  <<[id |-> t, startTime |-> t, endTime |-> Null, participants |-> {},
     totalTranscript |-> <<>>]>>

\* mutant: endSession stamps every participant, also one that already left
CloseAttendanceAll(parts, t) ==
  [u \in DOMAIN parts |->
     [parts[u] EXCEPT !.leaveTimestamp = t,
                      !.totalTimeAttended = t - parts[u].joinTimestamp]]

\* the forEach of endSession: stamp every participant that has no leaveTimestamp
CloseAttendance(parts, t) ==
  [u \in DOMAIN parts |->
     IF Falsy(parts[u].leaveTimestamp)
       THEN [parts[u] EXCEPT !.leaveTimestamp = t,
                             !.totalTimeAttended = t - parts[u].joinTimestamp]
       ELSE parts[u]]

EndedSession(session, parts, t) ==
  <<[session[1] EXCEPT !.endTime = t, !.participants = DOMAIN parts]>>

\* ---------------------------------------------------------------- initial state
NoChunk == [id |-> 0, readyState |-> "none"]
NoCall == [id |-> 0, userId |-> <<"none", 0>>, userName |-> "", speakerIndex |-> Null]
NoExport == [id |-> 0, format |-> "none", payload |-> <<>>, failed |-> FALSE]

\* a TranscriptionService after its constructor
ClientInit ==
  /\ ws = FALSE
  /\ readyState = "none"
  /\ isConnected = FALSE
  /\ reconnectAttempts = 0
  /\ timer = Null
  /\ closeCalled = FALSE
  /\ transcriptionFailed = FALSE
  /\ sent = <<>>
  /\ disconnectCalled = FALSE
  /\ failures = 0
  /\ lastDelay = Null
  /\ connErrors = 0
  /\ parseErrors = 0
  /\ lastMsg = "none"
  /\ nMessages = 0
  /\ lastChunk = NoChunk
  /\ nCloses = 0

ExportInit ==
  /\ apiCalls = 0
  /\ lastExport = NoExport
  /\ lastCall = NoCall

NoUrl == <<"none">>

\* the host and the recorder before any request; the API key is an input of the build
HostInit(keys) ==
  /\ requests = <<>>
  /\ replies = <<>>
  /\ meetingWindow = FALSE
  /\ joinedUrl = NoUrl
  /\ recorder = "none"
  /\ startPending = FALSE
  /\ apiKeySet \in keys

AudioInit ==
  /\ delivered = 0
  /\ pendingChunks = {}

Init ==
  /\ ClientInit
  /\ ExportInit
  /\ HostInit({TRUE})
  /\ AudioInit
  /\ now = 1
  /\ electronAPI \in BOOLEAN
  /\ isInMeeting = FALSE
  /\ isRecording = FALSE
  /\ streamOpen = FALSE
  /\ transcript = <<>>
  /\ participants = <<>>
  /\ speakerMapping = <<>>
  /\ currentSession = <<>>
  /\ joinPending = 0
  /\ leavePending = 0
  /\ exports = 0
  /\ hostCalls = 0
  /\ markedLeft = {}
  /\ lastSegment = NoSegment
  /\ nEvents = 0
  /\ botResponses = <<>>

\* ---------------------------------------------------------------- actions
Tick ==
  /\ now < MaxClock
  /\ now' = now + 1
  /\ UNCHANGED <<clientVars, exportVars, hostVars, audioVars, electronAPI, uiVars, analyticsVars, eventVars>>

\* handleJoinMeeting up to `await window.electronAPI.joinMeeting(url)`
JoinMeetingCall ==
  /\ ~isInMeeting
  /\ electronAPI
  /\ hostCalls < MaxHostCalls
  /\ hostCalls' = hostCalls + 1
  /\ joinPending' = joinPending + 1
  /\ UNCHANGED <<clientVars, exportVars, hostVars, audioVars, now, electronAPI, isInMeeting, isRecording, streamOpen,
                 leavePending, participants, speakerMapping, currentSession,
                 exports, markedLeft, eventVars>>

\* handleJoinMeeting after the host answered
JoinMeetingReturn(success) ==
  /\ joinPending > 0
  /\ joinPending' = joinPending - 1
  /\ IF success
       THEN /\ isInMeeting' = TRUE
            /\ currentSession' = NewSession(now)
       ELSE UNCHANGED <<isInMeeting, currentSession>>
  /\ UNCHANGED <<clientVars, exportVars, hostVars, audioVars, now, electronAPI, isRecording, streamOpen, leavePending,
                 participants, speakerMapping, exports, hostCalls, markedLeft,
                 eventVars>>

\* handleJoinMeeting without the Electron host: window.open, no session
JoinMeetingBrowser ==
  /\ ~isInMeeting
  /\ ~electronAPI
  /\ isInMeeting' = TRUE
  /\ UNCHANGED <<clientVars, exportVars, hostVars, audioVars, now, electronAPI, isRecording, streamOpen, joinPending,
                 leavePending, analyticsVars, eventVars>>

\* handleStartAnalysis; captureOk is the outcome of startAudioCapture
StartAnalysis(captureOk) ==
  /\ isInMeeting
  /\ ~isRecording
  /\ isRecording' = captureOk
  /\ streamOpen' = (streamOpen \/ captureOk)
  /\ UNCHANGED <<clientVars, exportVars, hostVars, audioVars, now, electronAPI, isInMeeting, joinPending, leavePending,
                 analyticsVars, eventVars>>

StopAnalysis ==
  /\ isInMeeting
  /\ isRecording
  /\ isRecording' = FALSE
  /\ UNCHANGED <<clientVars, exportVars, hostVars, audioVars, now, electronAPI, isInMeeting, streamOpen, joinPending,
                 leavePending, analyticsVars, eventVars>>

\* the recognition socket and the recorder have finished closing
StreamClosed ==
  /\ ~isRecording
  /\ streamOpen
  /\ streamOpen' = FALSE
  /\ UNCHANGED <<clientVars, exportVars, hostVars, audioVars, now, electronAPI, isInMeeting, isRecording, joinPending,
                 leavePending, analyticsVars, eventVars>>

HandleTranscriptUpdate(segment) ==
  /\ streamOpen
  /\ transcript' = Reconcile(transcript, segment)
  /\ participants' =
       UpdateSentiment(AddSegmentToParticipants(participants, speakerMapping, segment, now),
                       UnknownId(segment.speakerIndex), AnalyzeSentiment(segment.text))
  /\ speakerMapping' =
       MappingWith(participants, speakerMapping, ResolveUser(speakerMapping, segment), segment)
  /\ currentSession' = AddSegmentToSession(currentSession, segment)
  /\ lastSegment' = segment
  /\ nEvents' = nEvents + 1
  /\ botResponses' = IF CheckForBotMention(segment.text)
                       THEN Append(botResponses,
                                   GenerateBotResponse(segment.text, ClosureTranscript, now))
                       ELSE botResponses
  /\ UNCHANGED <<now, electronAPI, uiVars, exports, hostCalls, markedLeft>>

MarkParticipantLeft(userId) ==
  /\ userId \in DOMAIN participants
  /\ userId \notin markedLeft
  /\ markedLeft' = markedLeft \cup {userId}
  /\ participants' =
       IF Falsy(participants[userId].leaveTimestamp)
         THEN [participants EXCEPT
                 ![userId].leaveTimestamp = now,
                 ![userId].totalTimeAttended = now - participants[userId].joinTimestamp]
         ELSE participants
  /\ UNCHANGED <<clientVars, exportVars, hostVars, audioVars, now, electronAPI, uiVars, speakerMapping, currentSession,
                 exports, hostCalls, eventVars>>

\* endSession followed by downloadExport when a session is returned
EndSessionAndExport ==
  IF currentSession # <<>>
    THEN /\ currentSession' = EndedSession(currentSession, participants, now)
         /\ participants' = CloseAttendance(participants, now)
         /\ exports' = exports + 1
    ELSE UNCHANGED <<currentSession, participants, exports>>

\* handleLeaveMeeting up to `await window.electronAPI.closeMeeting()`
LeaveMeetingCall ==
  /\ isInMeeting
  /\ electronAPI
  /\ hostCalls < MaxHostCalls
  /\ hostCalls' = hostCalls + 1
  /\ isRecording' = FALSE
  /\ leavePending' = leavePending + 1
  /\ UNCHANGED <<clientVars, exportVars, hostVars, audioVars, now, electronAPI, isInMeeting, streamOpen, joinPending,
                 participants, speakerMapping, currentSession, exports,
                 markedLeft, eventVars>>

\* handleLeaveMeeting after closeMeeting resolved
LeaveMeetingReturn ==
  /\ leavePending > 0
  /\ leavePending' = leavePending - 1
  /\ EndSessionAndExport
  /\ isInMeeting' = FALSE
  /\ UNCHANGED <<clientVars, exportVars, hostVars, audioVars, now, electronAPI, isRecording, streamOpen, joinPending,
                 speakerMapping, hostCalls, markedLeft, eventVars>>

\* handleLeaveMeeting without the Electron host: no await, one step
LeaveMeetingBrowser ==
  /\ isInMeeting
  /\ ~electronAPI
  /\ isRecording' = FALSE
  /\ EndSessionAndExport
  /\ isInMeeting' = FALSE
  /\ UNCHANGED <<clientVars, exportVars, hostVars, audioVars, now, electronAPI, streamOpen, joinPending, leavePending,
                 speakerMapping, hostCalls, markedLeft, eventVars>>

RecognitionEvent ==
  \E segment \in LiveSegments :
    /\ nEvents < MaxLiveEvents
    /\ HandleTranscriptUpdate(segment)
    /\ UNCHANGED <<clientVars, exportVars, hostVars, audioVars>>

ParticipantLeft ==
  \E userId \in DOMAIN participants : MarkParticipantLeft(userId)

Next ==
  \/ Tick
  \/ JoinMeetingCall
  \/ \E success \in BOOLEAN : JoinMeetingReturn(success)
  \/ JoinMeetingBrowser
  \/ \E captureOk \in BOOLEAN : StartAnalysis(captureOk)
  \/ StopAnalysis
  \/ StreamClosed
  \/ RecognitionEvent
  \/ ParticipantLeft
  \/ LeaveMeetingCall
  \/ LeaveMeetingReturn
  \/ LeaveMeetingBrowser

Spec == Init /\ [][Next]_vars

\* ---------------------------------------------------------------- the event stream
\* The application joined a meeting through the Electron host and started the
\* analysis; from there only recognition events arrive.
StreamInit ==
  /\ ClientInit
  /\ ExportInit
  /\ HostInit({TRUE})
  /\ AudioInit
  /\ now = 1
  /\ electronAPI = TRUE
  /\ isInMeeting = TRUE
  /\ isRecording = TRUE
  /\ streamOpen = TRUE
  /\ transcript = <<>>
  /\ participants = <<>>
  /\ speakerMapping = <<>>
  /\ currentSession = NewSession(1)
  /\ joinPending = 0
  /\ leavePending = 0
  /\ exports = 0
  /\ hostCalls = 1
  /\ markedLeft = {}
  /\ lastSegment = NoSegment
  /\ nEvents = 0
  /\ botResponses = <<>>

StreamNext ==
  \E segment \in Segments :
    /\ nEvents < MaxEvents
    /\ HandleTranscriptUpdate(segment)
    /\ UNCHANGED <<clientVars, exportVars, hostVars, audioVars>>

StreamSpec == StreamInit /\ [][StreamNext]_vars

\* ---------------------------------------------------------------- recognition client
appVars == <<now, electronAPI, uiVars, analyticsVars, eventVars>>

\* what the backend can send: a result with text, a result whose transcript is
\* empty, a message without channel/alternatives, and text that is not JSON
MessageKinds == {"text", "empty", "missing", "malformed"}

\* the segment processDeepgramResponse makes of a result with text
MessageSegment ==
  [speakerIndex |-> 0, startTime |-> 0, endTime |-> 2000, text |-> <<"hello", "everyone">>]

\* close events a socket can get: the code, and whether the connection failed
\* (an error event is fired before the close event)
CloseEvents ==
  {[code |-> 1000, failed |-> FALSE], [code |-> 1001, failed |-> FALSE],
   [code |-> 1006, failed |-> FALSE], [code |-> 1006, failed |-> TRUE]}

CloseEventsIn(state, called) ==
  IF state \in {"connecting", "aborting"}
    THEN {e \in CloseEvents : e.code = 1006 /\ e.failed}
  ELSE IF state = "open" THEN {e \in CloseEvents : e.code = 1006}
  ELSE IF called THEN {e \in CloseEvents : e.code # 1001}
  ELSE CloseEvents

\* mutant: the exception of JSON.parse is swallowed
ParseNeverFails(kind) == FALSE

\* JSON.parse throws
ParseFails(kind) == kind = "malformed"

\* mutant: the transcript is tested for presence, not for being non-empty
HasTranscriptField(kind) == kind \in {"text", "empty"}

\* data.channel?.alternatives?.[0]?.transcript is truthy
HasTranscript(kind) == kind = "text"

\* mutant: sendAudio trusts the isConnected flag
CanSendFlagOnly(wsRef, connected, state) == wsRef /\ connected

\* the condition of sendAudio
CanSend(wsRef, connected, state) == wsRef /\ connected /\ state = "open"

\* the condition of ws.onclose for scheduling a reconnect
\* mutant: the retry budget is not looked at
ShouldReconnectAlways(code, attempts) == code # IntentionalClose

ShouldReconnect(code, attempts) ==
  code # IntentionalClose /\ attempts < MaxReconnectAttempts

\* the delay given to setTimeout in ws.onclose
ReconnectDelay(attempts) == BackoffMs * attempts

\* WebSocket.close() as seen in readyState
AfterCloseCall(state) ==
  IF state = "connecting" THEN "aborting"
  ELSE IF state = "open" THEN "closing"
  ELSE state

\* connect(): a new WebSocket
Connect ==
  /\ readyState = "none"
  /\ ~disconnectCalled
  /\ ws' = TRUE
  /\ readyState' = "connecting"
  /\ UNCHANGED <<isConnected, reconnectAttempts, timer, closeCalled, transcriptionFailed,
                 sent, disconnectCalled, failures, lastDelay, connErrors, parseErrors,
                 lastMsg, nMessages, lastChunk, nCloses, appVars, exportVars, hostVars, audioVars>>

\* ws.onopen
OnOpen ==
  /\ readyState = "connecting"
  /\ readyState' = "open"
  /\ isConnected' = TRUE
  /\ reconnectAttempts' = 0
  /\ failures' = 0
  /\ UNCHANGED <<ws, timer, closeCalled, transcriptionFailed, sent, disconnectCalled,
                 lastDelay, connErrors, parseErrors, lastMsg, nMessages, lastChunk,
                 nCloses, appVars, exportVars, hostVars, audioVars>>

\* the backend starts the closing handshake
ServerClosing ==
  /\ readyState = "open"
  /\ readyState' = "closing"
  /\ UNCHANGED <<ws, isConnected, reconnectAttempts, timer, closeCalled,
                 transcriptionFailed, sent, disconnectCalled, failures, lastDelay,
                 connErrors, parseErrors, lastMsg, nMessages, lastChunk, nCloses,
                 appVars, exportVars, hostVars, audioVars>>

\* the connection is closed: ws.onerror when it failed, then ws.onclose
OnClose(e) ==
  /\ readyState \in {"connecting", "aborting", "open", "closing"}
  /\ e \in CloseEventsIn(readyState, closeCalled)
  /\ nCloses < MaxCloses
  /\ nCloses' = nCloses + 1
  /\ readyState' = "closed"
  /\ isConnected' = FALSE
  /\ connErrors' = IF e.failed THEN connErrors + 1 ELSE connErrors
  /\ transcriptionFailed' = (transcriptionFailed \/ e.failed)
  /\ failures' = IF e.code # IntentionalClose THEN failures + 1 ELSE failures
  /\ IF ShouldReconnect(e.code, reconnectAttempts)
       THEN /\ timer' = ReconnectDelay(reconnectAttempts)
            /\ lastDelay' = ReconnectDelay(reconnectAttempts)
       ELSE UNCHANGED <<timer, lastDelay>>
  /\ UNCHANGED <<ws, reconnectAttempts, closeCalled, sent, disconnectCalled,
                 parseErrors, lastMsg, nMessages, lastChunk, appVars, exportVars, hostVars, audioVars>>

\* the callback given to setTimeout in ws.onclose
TimerFires ==
  /\ timer # Null
  /\ timer' = Null
  /\ reconnectAttempts' = reconnectAttempts + 1
  /\ ws' = TRUE
  /\ readyState' = "connecting"
  /\ closeCalled' = FALSE
  /\ UNCHANGED <<isConnected, transcriptionFailed, sent, disconnectCalled, failures,
                 lastDelay, connErrors, parseErrors, lastMsg, nMessages, lastChunk,
                 nCloses, appVars, exportVars, hostVars, audioVars>>

\* the body of disconnect()
DisconnectSocket ==
  IF ws
    THEN /\ readyState' = AfterCloseCall(readyState)
         /\ closeCalled' = (closeCalled \/ readyState \in {"connecting", "open"})
         /\ ws' = FALSE
         /\ isConnected' = FALSE
    ELSE UNCHANGED <<readyState, closeCalled, ws, isConnected>>

\* disconnect()
Disconnect ==
  /\ ~disconnectCalled
  /\ disconnectCalled' = TRUE
  /\ DisconnectSocket
  /\ UNCHANGED <<reconnectAttempts, timer, transcriptionFailed, sent, failures,
                 lastDelay, connErrors, parseErrors, lastMsg, nMessages, lastChunk,
                 nCloses, appVars, exportVars, hostVars, audioVars>>

\* ws.onmessage; a message event is fired only on a socket that is open
OnMessage(kind) ==
  /\ readyState = "open"
  /\ nMessages < MaxMessages
  /\ nMessages' = nMessages + 1
  /\ lastMsg' = kind
  /\ IF ParseFails(kind)
       THEN /\ parseErrors' = parseErrors + 1
            /\ transcriptionFailed' = TRUE
            /\ UNCHANGED appVars
       ELSE /\ UNCHANGED <<parseErrors, transcriptionFailed>>
            /\ IF HasTranscript(kind)
                 THEN HandleTranscriptUpdate(MessageSegment)
                 ELSE UNCHANGED appVars
  /\ UNCHANGED <<ws, readyState, isConnected, reconnectAttempts, timer, closeCalled,
                 sent, disconnectCalled, failures, lastDelay, connErrors, lastChunk,
                 nCloses, exportVars, hostVars, audioVars>>

\* sendAudio(chunk); the chunks are numbered in the order they are passed
SendAudio ==
  /\ lastChunk.id < MaxChunks
  /\ lastChunk' = [id |-> lastChunk.id + 1, readyState |-> readyState]
  /\ sent' = IF CanSend(ws, isConnected, readyState)
               THEN Append(sent, lastChunk.id + 1)
               ELSE sent
  /\ UNCHANGED <<ws, readyState, isConnected, reconnectAttempts, timer, closeCalled,
                 transcriptionFailed, disconnectCalled, failures, lastDelay,
                 connErrors, parseErrors, lastMsg, nMessages, nCloses, appVars,
                 exportVars, hostVars, audioVars>>

SocketCloses == \E e \in CloseEvents : OnClose(e)

InboundMessage == \E kind \in MessageKinds : OnMessage(kind)

ClientNext ==
  \/ Connect
  \/ OnOpen
  \/ ServerClosing
  \/ SocketCloses
  \/ TimerFires
  \/ Disconnect
  \/ InboundMessage
  \/ SendAudio

\* the application joined and started the analysis: the service is constructed
ClientSpec == StreamInit /\ [][ClientNext]_vars

\* the same with what the event loop and the network guarantee: a call of
\* connect() that is due is made, a timer that was set fires, and a socket
\* that is connecting or closing reaches its close event
ClientFairSpec ==
  /\ StreamInit
  /\ [][ClientNext]_vars
  /\ WF_vars(Connect)
  /\ WF_vars(TimerFires)
  /\ WF_vars(SocketCloses)

\* ---------------------------------------------------------------- AnalyticsService
\* the methods of AnalyticsService, called in any order with any argument

\* options.format
ExportFormats == {"json", "csv", "xlsx"}

\* mutant: the xlsx case falls through to the default case
ExportNeverFails(format) == FALSE

\* exportData throws
ExportFails(format) == format = "xlsx"

\* what prepareExportData collects and exportAsCSV / JSON.stringify encode
ExportPayload(format, session, parts) ==
  <<[format |-> format, session |-> session, participants |-> parts]>>

\* startSession(sessionId, meetingUrl)
StartSession ==
  /\ apiCalls < MaxApiCalls
  /\ apiCalls' = apiCalls + 1
  /\ currentSession' = NewSession(now)
  /\ UNCHANGED <<clientVars, hostVars, audioVars, lastCall, lastExport, now, electronAPI, uiVars, participants,
                 speakerMapping, exports, hostCalls, markedLeft, eventVars>>

\* endSession()
EndSession ==
  /\ apiCalls < MaxApiCalls
  /\ apiCalls' = apiCalls + 1
  /\ IF currentSession # <<>>
       THEN /\ currentSession' = EndedSession(currentSession, participants, now)
            /\ participants' = CloseAttendance(participants, now)
       ELSE UNCHANGED <<currentSession, participants>>
  /\ UNCHANGED <<clientVars, hostVars, audioVars, lastCall, lastExport, now, electronAPI, uiVars, speakerMapping,
                 exports, hostCalls, markedLeft, eventVars>>

\* addTranscriptSegment(segment.speakerIndex, segment)
AddTranscriptSegment(segment) ==
  /\ apiCalls < MaxApiCalls
  /\ apiCalls' = apiCalls + 1
  /\ participants' = AddSegmentToParticipants(participants, speakerMapping, segment, now)
  /\ speakerMapping' =
       MappingWith(participants, speakerMapping, ResolveUser(speakerMapping, segment), segment)
  /\ currentSession' = AddSegmentToSession(currentSession, segment)
  /\ UNCHANGED <<clientVars, hostVars, audioVars, lastCall, lastExport, now, electronAPI, uiVars, exports, hostCalls,
                 markedLeft, eventVars>>

\* exportData(options), or downloadExport(filename, options) which calls it
\* and then makes the browser download the payload
ExportData(format, download) ==
  /\ apiCalls < MaxApiCalls
  /\ apiCalls' = apiCalls + 1
  /\ lastExport' =
       [id |-> lastExport.id + 1,
        format |-> format,
        payload |-> IF ExportFails(format) THEN <<>>
                    ELSE ExportPayload(format, currentSession, participants),
        failed |-> ExportFails(format)]
  /\ exports' = IF download /\ ~ExportFails(format) THEN exports + 1 ELSE exports
  /\ UNCHANGED <<clientVars, hostVars, audioVars, lastCall, now, electronAPI, uiVars, participants, speakerMapping,
                 currentSession, hostCalls, markedLeft, eventVars>>

SegmentAdded == \E segment \in LiveSegments : AddTranscriptSegment(segment)

ExportRequest == \E format \in ExportFormats, download \in BOOLEAN : ExportData(format, download)

ApiNext ==
  \/ Tick
  \/ StartSession
  \/ EndSession
  \/ SegmentAdded
  \/ ParticipantLeft
  \/ ExportRequest

ApiSpec == Init /\ [][ApiNext]_vars

\* ---------------------------------------------------------------- the aggregator
\* The application joined and started the analysis; recognition events arrive
\* and speakers are bound to participants with mapSpeakerToParticipant.

\* a userId that is not a placeholder
UserIds == {<<"alice", 0>>}

AggTexts ==
  {<<"hello", "everyone">>, <<"great">>, <<"bad">>, <<"hey", "Bot">>, <<"we", "said", "it">>,
   <<"Bot", "summary">>, <<"Bot", "who">>}

AggSegments ==
  {[speakerIndex |-> 0, startTime |-> 0, endTime |-> 2000, text |-> t] : t \in AggTexts}
  \cup {[speakerIndex |-> 1, startTime |-> 0, endTime |-> 2000,
          text |-> <<"hello", "everyone">>]}

\* mapSpeakerToParticipant(speakerIndex, userId)
MapSpeakerToParticipant(speakerIndex, userId) ==
  /\ speakerMapping' = Put(speakerMapping, speakerIndex, userId)
  /\ UNCHANGED <<clientVars, exportVars, hostVars, audioVars, now, electronAPI, uiVars, participants,
                 currentSession, exports, hostCalls, markedLeft, eventVars>>

SpeakerMapped ==
  \E speakerIndex \in Speakers, userId \in UserIds :
    MapSpeakerToParticipant(speakerIndex, userId)

AggEvent ==
  \E segment \in AggSegments :
    /\ nEvents < MaxAggEvents
    /\ HandleTranscriptUpdate(segment)
    /\ UNCHANGED <<clientVars, exportVars, hostVars, audioVars>>

AggregatorNext ==
  \/ SpeakerMapped
  \/ AggEvent

AggregatorSpec == StreamInit /\ [][AggregatorNext]_vars

\* ---------------------------------------------------------------- the service alone
\* An AnalyticsService after its constructor; its methods that touch the
\* participants are called in any order with any argument.

UserNames == {"Alice", "Bob"}

\* addParticipant(userId, userName, speakerIndex?)
AddParticipant(userId, userName, speakerIndex) ==
  /\ apiCalls < MaxApiCalls
  /\ apiCalls' = apiCalls + 1
  /\ lastCall' = [id |-> apiCalls + 1, userId |-> userId, userName |-> userName,
                  speakerIndex |-> speakerIndex]
  /\ participants' = ParticipantsWith(participants, userId, userName, now)
  /\ speakerMapping' = MappingAfterAdd(participants, speakerMapping, userId, speakerIndex)
  /\ UNCHANGED <<clientVars, hostVars, audioVars, lastExport, now, electronAPI, uiVars,
                 currentSession, exports, hostCalls, markedLeft, eventVars>>

ParticipantAdded ==
  \E userId \in UserIds, userName \in UserNames, speakerIndex \in Speakers \cup {Null} :
    AddParticipant(userId, userName, speakerIndex)

\* the segments a caller passes: the two speakers, with different durations
ServiceSegments ==
  {[speakerIndex |-> 0, startTime |-> 0, endTime |-> 2000, text |-> <<"hello", "everyone">>],
   [speakerIndex |-> 1, startTime |-> 500, endTime |-> 1500, text |-> <<"great">>]}

ServiceStart == apiCalls < MaxServiceCalls /\ StartSession

ServiceEnd == apiCalls < MaxServiceCalls /\ EndSession

ServiceAdd == apiCalls < MaxServiceCalls /\ ParticipantAdded

ServiceSegment ==
  \E segment \in ServiceSegments :
    apiCalls < MaxServiceCalls /\ AddTranscriptSegment(segment)

ServiceNext ==
  \/ Tick
  \/ ServiceStart
  \/ ServiceEnd
  \/ ServiceAdd
  \/ SpeakerMapped
  \/ ServiceSegment
  \/ ParticipantLeft

\* the service does not look at the host; the application runs in the desktop shell
ServiceInit == Init /\ electronAPI = TRUE

ServiceSpec == ServiceInit /\ [][ServiceNext]_vars

\* ---------------------------------------------------------------- export encoder
\* exportData with its options, on the states addTranscriptSegment and
\* updateParticipantSentiment make

EncTexts ==
  {<<"hello", "everyone">>,       \* "hello everyone"
   <<"hello", "", "everyone">>,   \* "hello  everyone"
   <<"great", "">>,               \* "great "
   <<"">>}                        \* ""

EncSegments ==
  {[speakerIndex |-> 0, startTime |-> 0, endTime |-> 2000, text |-> t] : t \in EncTexts}
  \cup {[speakerIndex |-> 1, startTime |-> 0, endTime |-> 2000,
          text |-> <<"hello", "everyone">>]}

\* AnalyticsExportOptions: format, includeTranscript, includeSentiment
ExportOptions ==
  [format : {"json", "csv"}, includeTranscript : BOOLEAN, includeSentiment : BOOLEAN]

\* seg.text.split(' ').length of getSessionSummary
SplitLength(text) == Len(text)

\* countWords of exportAsCSV: split(/\s+/), trim, filter(Boolean)
CountWords(text) == Cardinality({i \in 1..Len(text) : text[i] # ""})

\* the reduce over a transcript that getSessionSummary makes
RECURSIVE SumSplitLength(_)
SumSplitLength(segs) ==
  IF segs = <<>> THEN 0 ELSE SplitLength(Head(segs).text) + SumSplitLength(Tail(segs))

\* the reduce over a transcript that exportAsCSV makes
RECURSIVE SumCountWords(_)
SumCountWords(segs) ==
  IF segs = <<>> THEN 0 ELSE CountWords(Head(segs).text) + SumCountWords(Tail(segs))

\* getSessionSummary; averageParticipation is kept as its two terms
GetSessionSummary(session, parts, t) ==
  LET totalSpokenTime == SumOver(DOMAIN parts, [u \in DOMAIN parts |-> parts[u].totalTimeSpoken])
      totalSessionTime ==
        IF session = <<>> THEN 0
        ELSE (IF Falsy(session[1].endTime) THEN t ELSE session[1].endTime)
             - session[1].startTime
      Overall(o) == Cardinality({u \in DOMAIN parts : parts[u].sentiment.overall = o})
  IN [totalParticipants |-> Cardinality(DOMAIN parts),
      totalDuration |-> totalSessionTime,
      totalWords |-> SumOver(DOMAIN parts,
                             [u \in DOMAIN parts |-> SumSplitLength(parts[u].transcript)]),
      averageParticipation |->
        IF totalSessionTime > 0 THEN <<totalSpokenTime * 100, totalSessionTime>> ELSE <<0, 1>>,
      sentimentDistribution |->
        [positive |-> Overall("positive"), neutral |-> Overall("neutral"),
         negative |-> Overall("negative")]]

\* one entry of data.participants: the spreads add sentiment and transcript
\* only when their flag is set
ExportedParticipant(p, userId, options) ==
  [userId |-> userId, joinTimestamp |-> p.joinTimestamp,
   leaveTimestamp |-> p.leaveTimestamp, totalTimeAttended |-> p.totalTimeAttended,
   totalTimeSpoken |-> p.totalTimeSpoken]
  @@ (IF options.includeSentiment THEN [sentiment |-> p.sentiment] ELSE <<>>)
  @@ (IF options.includeTranscript THEN [transcript |-> p.transcript] ELSE <<>>)

\* mutant: the summary is computed from the entries that are exported
PrepareExportDataFromEntries(options, session, parts, t) ==
  [session |-> session,
   summary |-> [GetSessionSummary(session, parts, t) EXCEPT
                  !.totalWords = IF options.includeTranscript THEN @ ELSE 0],
   participants |-> [u \in DOMAIN parts |-> ExportedParticipant(parts[u], u, options)],
   exportTimestamp |-> t]

\* prepareExportData
PrepareExportData(options, session, parts, t) ==
  [session |-> session,
   summary |-> GetSessionSummary(session, parts, t),
   participants |-> [u \in DOMAIN parts |-> ExportedParticipant(parts[u], u, options)],
   exportTimestamp |-> t]

\* JSON.stringify(data, null, 2) as the document JSON.parse gives back: a null
\* session is null, every number of the data is finite and is kept
JsonDocument(data) ==
  [data EXCEPT !.session = IF data.session = <<>> THEN Null ELSE data.session[1]]

\* headers of exportAsCSV
CsvHeaders(options) ==
  <<"User ID", "User Name", "Join Time", "Leave Time", "Time Attended (min)",
    "Time Spoken (min)", "Words Spoken">>
  \o (IF options.includeSentiment THEN <<"Sentiment", "Sentiment Score">> ELSE <<>>)

\* (ms / 60000).toFixed(2), in hundredths of a minute
MinutesFixed2(ms) == (ms * 100 + 30000) \div 60000

\* score.toFixed(3), in thousandths; the score is (positive - negative) / total
ScoreFixed3(sentiment) ==
  LET total == sentiment.positive + sentiment.negative
  IN IF total = 0 THEN 0
     ELSE (2000 * (sentiment.positive - sentiment.negative) + total) \div (2 * total)

\* one row of exportAsCSV
CsvRow(p, options) ==
  <<p.userId,
    "",
    IF Falsy(p.joinTimestamp) THEN <<"">> ELSE <<"iso", p.joinTimestamp>>,
    IF Falsy(p.leaveTimestamp) THEN <<"Still in meeting">> ELSE <<"iso", p.leaveTimestamp>>,
    MinutesFixed2(p.totalTimeAttended),
    MinutesFixed2(p.totalTimeSpoken),
    IF "transcript" \in DOMAIN p THEN SumCountWords(p.transcript) ELSE 0>>
  \o (IF options.includeSentiment
        THEN <<IF "sentiment" \in DOMAIN p THEN p.sentiment.overall ELSE "neutral",
               IF "sentiment" \in DOMAIN p THEN ScoreFixed3(p.sentiment) ELSE 0>>
        ELSE <<>>)

\* exportAsCSV: the table the csv text holds
ExportAsCSV(data, options) ==
  [header |-> CsvHeaders(options),
   rows |-> [u \in DOMAIN data.participants |-> CsvRow(data.participants[u], options)]]

\* exportData(options) for the json and csv formats
EncodeExport(options, session, parts, t) ==
  LET data == PrepareExportData(options, session, parts, t)
  IN IF options.format = "csv" THEN ExportAsCSV(data, options) ELSE JsonDocument(data)

\* exportData(options)
ExportWith(options) ==
  /\ apiCalls < MaxApiCalls
  /\ apiCalls' = apiCalls + 1
  /\ lastExport' =
       [id |-> lastExport.id + 1, format |-> options.format, options |-> options,
        payload |-> <<EncodeExport(options, currentSession, participants, now)>>,
        failed |-> FALSE]
  /\ UNCHANGED <<clientVars, hostVars, audioVars, lastCall, now, electronAPI, uiVars, analyticsVars, eventVars>>

\* updateParticipantSentiment(userId, analyzeSentiment(text))
UpdateParticipantSentiment(userId, text) ==
  /\ apiCalls < MaxApiCalls
  /\ apiCalls' = apiCalls + 1
  /\ participants' = UpdateSentiment(participants, userId, AnalyzeSentiment(text))
  /\ UNCHANGED <<clientVars, hostVars, audioVars, lastCall, lastExport, now, electronAPI, uiVars, speakerMapping,
                 currentSession, exports, hostCalls, markedLeft, eventVars>>

EncSegmentAdded == \E segment \in EncSegments : AddTranscriptSegment(segment)

SentimentUpdated ==
  \E userId \in DOMAIN participants, text \in {<<"great">>, <<"bad">>} :
    UpdateParticipantSentiment(userId, text)

EncodeRequest == \E options \in ExportOptions : ExportWith(options)

EncoderNext ==
  \/ EncSegmentAdded
  \/ SentimentUpdated
  \/ EncodeRequest

EncoderSpec == StreamInit /\ [][EncoderNext]_vars

\* ---------------------------------------------------------------- meeting lifecycle
\* handleJoinMeeting, the host's ipc handlers, handleStartAnalysis with
\* startAudioCapture, and handleLeaveMeeting, with the TranscriptionService
\* they drive.  A host name is the sequence of the fragments it is written
\* from, so that String.includes is a search for a run of fragments.

\* validDomains
ValidDomains ==
  {<<"meet", ".", "google", ".", "com">>, <<"zoom", ".", "us">>,
   <<"teams", ".", "microsoft", ".", "com">>, <<"webex", ".", "com">>,
   <<"gotomeeting", ".", "com">>}

\* what the user typed: nothing, something new URL() rejects, or a URL
BlankUrl == [kind |-> "blank", hostname |-> <<>>]
MalformedUrl == [kind |-> "malformed", hostname |-> <<>>]

UrlOf(hostname) == [kind |-> "url", hostname |-> hostname]

MeetingUrls ==
  {BlankUrl, MalformedUrl,
   UrlOf(<<"us02web", ".", "zoom", ".", "us">>),
   UrlOf(<<"evil", ".", "example">>),
   UrlOf(<<"zoom", ".", "us", ".", "evil", ".", "example">>)}

\* isValidMeetingUrl
IsValidMeetingUrl(url) ==
  /\ url.kind = "url"
  /\ \E domain \in ValidDomains : Includes(url.hostname, domain)

\* the 'join-meeting' handler; created is whether new BrowserWindow succeeded
JoinMeetingHandler(created) ==
  /\ requests # <<>>
  /\ Head(requests).channel = "join-meeting"
  /\ requests' = Tail(requests)
  /\ LET ok == IsValidMeetingUrl(Head(requests).url) /\ created
     IN  /\ meetingWindow' = (meetingWindow \/ ok)
         /\ replies' = Append(replies, [channel |-> "join-meeting", success |-> ok,
                                        url |-> Head(requests).url])
  /\ UNCHANGED <<joinedUrl, recorder, startPending, apiKeySet, audioVars, clientVars,
                 exportVars, appVars>>

\* the 'close-meeting' handler; closed is whether meetingWindow.close() returned
CloseMeetingHandler(closed) ==
  /\ requests # <<>>
  /\ Head(requests).channel = "close-meeting"
  /\ requests' = Tail(requests)
  /\ meetingWindow' = (meetingWindow /\ ~closed)
  /\ replies' = Append(replies, [channel |-> "close-meeting",
                                 success |-> (closed \/ ~meetingWindow),
                                 url |-> BlankUrl])
  /\ UNCHANGED <<joinedUrl, recorder, startPending, apiKeySet, audioVars, clientVars,
                 exportVars, appVars>>

\* handleJoinMeeting up to the await, or to its end without the host
HandleJoinMeeting(url) ==
  /\ ~isInMeeting
  /\ IF url.kind = "blank"
       THEN UNCHANGED <<requests, hostCalls, isInMeeting, joinedUrl>>
       ELSE IF electronAPI
         THEN /\ hostCalls < MaxLifecycleCalls
              /\ hostCalls' = hostCalls + 1
              /\ requests' = Append(requests, [channel |-> "join-meeting", url |-> url])
              /\ UNCHANGED <<isInMeeting, joinedUrl>>
         ELSE /\ isInMeeting' = TRUE
              /\ joinedUrl' = url
              /\ UNCHANGED <<requests, hostCalls>>
  /\ UNCHANGED <<replies, meetingWindow, recorder, startPending, apiKeySet, audioVars,
                 clientVars, exportVars, now, electronAPI, isRecording, streamOpen,
                 joinPending, leavePending, participants, speakerMapping,
                 currentSession, exports, markedLeft, eventVars>>

\* handleJoinMeeting after joinMeeting resolved
HandleJoinMeetingResume ==
  /\ replies # <<>>
  /\ Head(replies).channel = "join-meeting"
  /\ replies' = Tail(replies)
  /\ IF Head(replies).success
       THEN /\ isInMeeting' = TRUE
            /\ joinedUrl' = Head(replies).url
            /\ currentSession' = NewSession(now)
       ELSE UNCHANGED <<isInMeeting, joinedUrl, currentSession>>
  /\ UNCHANGED <<requests, meetingWindow, recorder, startPending, apiKeySet, audioVars,
                 clientVars, exportVars, now, electronAPI, isRecording, streamOpen,
                 joinPending, leavePending, participants, speakerMapping, exports,
                 hostCalls, markedLeft, eventVars>>

\* handleStartAnalysis up to the await in startAudioCapture: with an API key a
\* TranscriptionService is made and connect() returns with the socket
\* connecting.  The model follows the first service of a run.
HandleStartAnalysis ==
  /\ isInMeeting
  /\ ~isRecording
  /\ ~startPending
  /\ readyState = "none"
  /\ startPending' = TRUE
  /\ IF apiKeySet
       THEN /\ ws' = TRUE
            /\ readyState' = "connecting"
       ELSE UNCHANGED <<ws, readyState>>
  /\ UNCHANGED <<requests, replies, meetingWindow, joinedUrl, recorder, apiKeySet,
                 audioVars, isConnected, reconnectAttempts, timer, closeCalled,
                 transcriptionFailed, sent, disconnectCalled, failures, lastDelay,
                 connErrors, parseErrors, lastMsg, nMessages, lastChunk, nCloses,
                 exportVars, appVars>>

\* what getDisplayMedia and getUserMedia gave
AudioSources == {"display", "microphone", "none"}

\* startAudioCapture from its await to the end of handleStartAnalysis
StartAudioCapture(source) ==
  /\ startPending
  /\ startPending' = FALSE
  /\ IF source = "none"
       THEN /\ isRecording' = FALSE
            /\ UNCHANGED <<recorder, streamOpen>>
       ELSE /\ isRecording' = TRUE
            /\ recorder' = "recording"
            /\ streamOpen' = TRUE
  /\ UNCHANGED <<requests, replies, meetingWindow, joinedUrl, apiKeySet, audioVars,
                 clientVars, exportVars, now, electronAPI, isInMeeting, joinPending,
                 leavePending, analyticsVars, eventVars>>

\* handleStopAnalysis
StopRecorderAndDisconnect ==
  /\ recorder' = IF recorder = "recording" THEN "inactive" ELSE recorder
  /\ IF readyState # "none"
       THEN /\ disconnectCalled' = TRUE
            /\ DisconnectSocket
       ELSE UNCHANGED <<disconnectCalled, readyState, closeCalled, ws, isConnected>>
  /\ isRecording' = FALSE

HandleStopAnalysis ==
  /\ isInMeeting
  /\ isRecording
  /\ StopRecorderAndDisconnect
  /\ UNCHANGED <<requests, replies, meetingWindow, joinedUrl, startPending, apiKeySet,
                 audioVars, reconnectAttempts, timer, transcriptionFailed, sent,
                 failures, lastDelay, connErrors, parseErrors, lastMsg, nMessages,
                 lastChunk, nCloses, exportVars, now, electronAPI, isInMeeting,
                 streamOpen, joinPending, leavePending, analyticsVars, eventVars>>

\* handleLeaveMeeting up to the await, or to its end without the host
HandleLeaveMeeting ==
  /\ isInMeeting
  /\ StopRecorderAndDisconnect
  /\ IF electronAPI
       THEN /\ hostCalls < MaxLifecycleCalls
            /\ hostCalls' = hostCalls + 1
            /\ requests' = Append(requests, [channel |-> "close-meeting", url |-> BlankUrl])
            /\ UNCHANGED <<isInMeeting, currentSession, participants, exports>>
       ELSE /\ EndSessionAndExport
            /\ isInMeeting' = FALSE
            /\ UNCHANGED <<requests, hostCalls>>
  /\ UNCHANGED <<replies, meetingWindow, joinedUrl, startPending, apiKeySet, audioVars,
                 reconnectAttempts, timer, transcriptionFailed, sent, failures,
                 lastDelay, connErrors, parseErrors, lastMsg, nMessages, lastChunk,
                 nCloses, exportVars, now, electronAPI, streamOpen, joinPending,
                 leavePending, speakerMapping, markedLeft, eventVars>>

\* handleLeaveMeeting after closeMeeting resolved
HandleLeaveMeetingResume ==
  /\ replies # <<>>
  /\ Head(replies).channel = "close-meeting"
  /\ replies' = Tail(replies)
  /\ EndSessionAndExport
  /\ isInMeeting' = FALSE
  /\ UNCHANGED <<requests, meetingWindow, joinedUrl, recorder, startPending, apiKeySet,
                 audioVars, clientVars, exportVars, now, electronAPI, isRecording,
                 streamOpen, joinPending, leavePending, speakerMapping, hostCalls,
                 markedLeft, eventVars>>

JoinClicked == \E url \in MeetingUrls : HandleJoinMeeting(url)

JoinHandled == \E created \in BOOLEAN : JoinMeetingHandler(created)

\* a close event of the service handleStartAnalysis made
ConnectionCloses ==
  /\ nCloses < MaxLifecycleCloses
  /\ SocketCloses

CloseHandled == \E closed \in BOOLEAN : CloseMeetingHandler(closed)

CaptureSettled == \E source \in AudioSources : StartAudioCapture(source)

LifecycleInit ==
  /\ ClientInit
  /\ ExportInit
  /\ HostInit(BOOLEAN)
  /\ AudioInit
  /\ now = 1
  /\ electronAPI \in BOOLEAN
  /\ isInMeeting = FALSE
  /\ isRecording = FALSE
  /\ streamOpen = FALSE
  /\ transcript = <<>>
  /\ participants = <<>>
  /\ speakerMapping = <<>>
  /\ currentSession = <<>>
  /\ joinPending = 0
  /\ leavePending = 0
  /\ exports = 0
  /\ hostCalls = 0
  /\ markedLeft = {}
  /\ lastSegment = NoSegment
  /\ nEvents = 0
  /\ botResponses = <<>>

LifecycleNext ==
  \/ JoinClicked
  \/ JoinHandled
  \/ HandleJoinMeetingResume
  \/ HandleStartAnalysis
  \/ CaptureSettled
  \/ HandleStopAnalysis
  \/ HandleLeaveMeeting
  \/ CloseHandled
  \/ HandleLeaveMeetingResume
  \/ OnOpen
  \/ ConnectionCloses
  \/ TimerFires

LifecycleSpec == LifecycleInit /\ [][LifecycleNext]_vars

\* ---------------------------------------------------------------- audio chunks
\* mediaRecorder.ondataavailable and processAudioChunk while the analysis runs.
\* The recorder numbers its chunks 1, 2, ... in the order it delivers them.

\* isWebSocketConnected()
IsWebSocketConnected == isConnected /\ ws /\ readyState = "open"

\* the mock segment of processAudioChunk: its times are taken from Date.now()
MockSegment ==
  [speakerIndex |-> 0, startTime |-> now, endTime |-> now + 2000,
   text |-> <<"hello", "everyone">>]

\* the sizes of event.data
ChunkSizes == {0, 1}

\* ondataavailable, and processAudioChunk up to `await audioBlob.arrayBuffer()`
\* or, when the service is not connected, to its end; mock is Math.random() > 0.9
DataAvailable(size, mock) ==
  /\ recorder = "recording"
  /\ delivered < MaxChunks
  /\ delivered' = delivered + 1
  /\ IF size > 0 /\ IsWebSocketConnected
       THEN /\ pendingChunks' = pendingChunks \cup {delivered + 1}
            /\ UNCHANGED appVars
       ELSE /\ UNCHANGED pendingChunks
            /\ IF size > 0 /\ mock
                 THEN HandleTranscriptUpdate(MockSegment)
                 ELSE UNCHANGED appVars
  /\ UNCHANGED <<clientVars, exportVars, hostVars>>

\* processAudioChunk after arrayBuffer() resolved: sendAudio(arrayBuffer)
ArrayBufferResolved(chunk) ==
  /\ chunk \in pendingChunks
  /\ pendingChunks' = pendingChunks \ {chunk}
  /\ lastChunk' = [id |-> chunk, readyState |-> readyState]
  /\ sent' = IF CanSend(ws, isConnected, readyState) THEN Append(sent, chunk) ELSE sent
  /\ UNCHANGED <<ws, readyState, isConnected, reconnectAttempts, timer, closeCalled,
                 transcriptionFailed, disconnectCalled, failures, lastDelay,
                 connErrors, parseErrors, lastMsg, nMessages, nCloses, appVars,
                 exportVars, hostVars, delivered>>

ChunkDelivered == \E size \in ChunkSizes, mock \in BOOLEAN : DataAvailable(size, mock)

ChunkConverted == \E chunk \in pendingChunks : ArrayBufferResolved(chunk)

\* the application joined through the host and started the analysis with an
\* API key: the recorder runs and the socket is open
AudioStreamInit ==
  /\ ExportInit
  /\ AudioInit
  /\ ws = TRUE
  /\ readyState = "open"
  /\ isConnected = TRUE
  /\ reconnectAttempts = 0
  /\ timer = Null
  /\ closeCalled = FALSE
  /\ transcriptionFailed = FALSE
  /\ sent = <<>>
  /\ disconnectCalled = FALSE
  /\ failures = 0
  /\ lastDelay = Null
  /\ connErrors = 0
  /\ parseErrors = 0
  /\ lastMsg = "none"
  /\ nMessages = 0
  /\ lastChunk = NoChunk
  /\ nCloses = 0
  /\ requests = <<>>
  /\ replies = <<>>
  /\ meetingWindow = TRUE
  /\ joinedUrl = UrlOf(<<"us02web", ".", "zoom", ".", "us">>)
  /\ recorder = "recording"
  /\ startPending = FALSE
  /\ apiKeySet = TRUE
  /\ now = 1
  /\ electronAPI = TRUE
  /\ isInMeeting = TRUE
  /\ isRecording = TRUE
  /\ streamOpen = TRUE
  /\ transcript = <<>>
  /\ participants = <<>>
  /\ speakerMapping = <<>>
  /\ currentSession = NewSession(1)
  /\ joinPending = 0
  /\ leavePending = 0
  /\ exports = 0
  /\ hostCalls = 1
  /\ markedLeft = {}
  /\ lastSegment = NoSegment
  /\ nEvents = 0
  /\ botResponses = <<>>

AudioNext ==
  \/ ChunkDelivered
  \/ ChunkConverted
  \/ InboundMessage
  \/ ConnectionCloses
  \/ Tick

AudioSpec == AudioStreamInit /\ [][AudioNext]_vars

\* ================================================================ claims

Session == currentSession[1]

SegmentA == [speakerIndex |-> 0, startTime |-> 0, endTime |-> 2000,
             text |-> <<"hello", "everyone">>]
SegmentA2 == [speakerIndex |-> 0, startTime |-> 0, endTime |-> 2500,
              text |-> <<"hello", "everyone", "welcome">>]

\* a step that delivers one recognition event (lastSegment' is the event)
EventStep == nEvents' = nEvents + 1

InWindow(s, e) ==
  s.speakerIndex = e.speakerIndex /\ Abs(s.startTime - e.startTime) < 1000

\* C1: an event that has a same-speaker segment within the tolerance window
\* leaves the transcript's length unchanged and one such slot becomes exactly
\* the event, the other slots unchanged; an event with no such segment is
\* appended at the end; A (speaker 0, 0..2000) then A' (speaker 0, 0..2500)
\* leaves exactly the one segment A'.
C1_RevisionCollapse ==
  [][EventStep =>
       LET e == lastSegment'
           hits == {i \in 1..Len(transcript) : InWindow(transcript[i], e)}
       IN /\ hits # {} =>
               /\ Len(transcript') = Len(transcript)
               /\ \E i \in hits :
                     /\ transcript'[i] = e
                     /\ \A j \in 1..Len(transcript) : j # i => transcript'[j] = transcript[j]
          /\ hits = {} => transcript' = Append(transcript, e)
          /\ (nEvents = 1 /\ lastSegment = SegmentA /\ e = SegmentA2) =>
               transcript' = <<SegmentA2>>]_vars

C1_Witness ==
  /\ nEvents = 2
  /\ Session.totalTranscript = <<SegmentA, SegmentA2>>
  /\ transcript = <<SegmentA2>>

\* C2: of two consecutive events of one speaker whose start times are 500 ms
\* apart the second is merged (no entry is added; from the empty transcript
\* the two leave one segment); when they are 1500 ms apart both stay, in
\* different slots (from the empty transcript, two segments); an event never
\* changes a slot of another speaker, and two consecutive events of different
\* speakers both stay.
C2_MergeWindow ==
  [][(EventStep /\ nEvents >= 1) =>
       LET e1 == lastSegment
           e2 == lastSegment'
           apart == Abs(e1.startTime - e2.startTime)
           both == \E i, j \in 1..Len(transcript') :
                     i # j /\ transcript'[i] = e1 /\ transcript'[j] = e2
       IN /\ (e1.speakerIndex = e2.speakerIndex /\ apart = 500) =>
               /\ Len(transcript') = Len(transcript)
               /\ nEvents = 1 => Len(transcript') = 1
          /\ (e1.speakerIndex = e2.speakerIndex /\ apart = 1500) =>
               /\ both
               /\ nEvents = 1 => Len(transcript') = 2
          /\ e1.speakerIndex # e2.speakerIndex =>
               /\ both
               /\ nEvents = 1 => Len(transcript') = 2
          /\ \A i \in 1..Len(transcript) :
               transcript[i].speakerIndex # e2.speakerIndex =>
                 transcript'[i] = transcript[i]]_vars

C2_Witness ==
  /\ nEvents = 2
  /\ Len(transcript) = 1
  /\ Len(Session.totalTranscript) = 2
  /\ Session.totalTranscript[1].speakerIndex = 1
  /\ Session.totalTranscript[2].speakerIndex = 1
  /\ Abs(Session.totalTranscript[1].startTime - Session.totalTranscript[2].startTime) = 500

\* C3: delivering the event that was delivered last once more leaves the
\* transcript as it was after the first delivery.
C3_Idempotence ==
  [][(EventStep /\ lastSegment' = lastSegment) => transcript' = transcript]_vars

\* the same event twice in a row, onto a transcript that already has two
\* same-speaker segments around it
C3_Witness ==
  LET all == Session.totalTranscript
  IN /\ nEvents = 4
     /\ all[3] = all[4]
     /\ all[4] = lastSegment
     /\ Len(transcript) = 2
     /\ \A i \in 1..2 : transcript[i].speakerIndex = lastSegment.speakerIndex

\* C4: the transcript never has two entries of one speaker whose start times
\* are less than 1000 ms apart.
C4_NoDuplicateUtterance ==
  \A i, j \in 1..Len(transcript) :
    i # j => ~InWindow(transcript[i], transcript[j])

SlotsOf(u, slots) == SelectSeq(slots, LAMBDA s : ResolveUser(speakerMapping', s) = u)

\* C5: after an event replaced a transcript slot, the speaking time of the
\* participant the event belongs to is the sum of the durations of that
\* participant's segments in the reconciled transcript.
C5_NoDoubleCounting ==
  [][(EventStep /\ Len(transcript') = Len(transcript)) =>
       LET u == ResolveUser(speakerMapping', lastSegment')
       IN participants'[u].totalTimeSpoken = SumDurations(SlotsOf(u, transcript'))]_vars

TimeSpoken == [u \in DOMAIN participants |-> participants[u].totalTimeSpoken]
SegmentCount == [u \in DOMAIN participants |-> Len(participants[u].transcript)]

Finalized == currentSession # <<>> /\ Session.endTime # Null

\* C6: when endSession has finalized a session, the speaking times of the
\* session's participants add up to the durations of the segments of the
\* session's full transcript.
C6_Conservation ==
  [][(currentSession # <<>> /\ currentSession' # <<>> /\
      currentSession[1].endTime = Null /\ currentSession'[1].endTime # Null) =>
       SumOver(currentSession'[1].participants,
               [u \in DOMAIN participants' |-> participants'[u].totalTimeSpoken])
         = SumDurations(currentSession'[1].totalTranscript)]_vars

\* C7: during a session the participants' transcript lists together have as
\* many entries as the reconciled transcript.
C7_SegmentCountEquality ==
  currentSession # <<>> =>
    SumOver(DOMAIN participants, SegmentCount) = Len(transcript)

\* C8: in a finalized session every participant of the session that
\* markParticipantLeft was never called for left at the session's end time and
\* attended from its join to that time.
C8_AttendanceClosure ==
  Finalized =>
    \A u \in Session.participants \ markedLeft :
      /\ participants[u].leaveTimestamp = Session.endTime
      /\ participants[u].totalTimeAttended =
           participants[u].leaveTimestamp - participants[u].joinTimestamp

\* C9: a leaveTimestamp that is set is never changed and never set back to null.
C9_LeaveSetOnce ==
  [][\A u \in DOMAIN participants :
       participants[u].leaveTimestamp # Null =>
         /\ u \in DOMAIN participants'
         /\ participants'[u].leaveTimestamp = participants[u].leaveTimestamp]_vars

\* a participant that was marked as left before the session ended at a
\* later time, and a second session started after that
C9_Witness ==
  /\ Finalized
  /\ \E u \in Session.participants :
       /\ u \in markedLeft
       /\ participants[u].leaveTimestamp # Null
       /\ participants[u].leaveTimestamp < Session.startTime

\* C10: a leave of a session that is already finalized changes neither the
\* session nor a participant and makes no export.
C10_SecondLeaveNoOp ==
  [][(Finalized /\ leavePending' < leavePending) =>
       /\ currentSession' = currentSession
       /\ participants' = participants
       /\ exports' = exports]_vars

\* C11: a payload is produced only when a current session exists and its
\* endTime is set.
C11_ExportOnlyFinalized ==
  lastExport.payload # <<>> =>
    /\ lastExport.payload[1].session # <<>>
    /\ lastExport.payload[1].session[1].endTime # Null

\* the participants' score of sentiment
Sentiment == [u \in DOMAIN participants |-> participants[u].sentiment]

\* C12: once endSession has set endTime, a recognition event or a participant
\* leaving changes neither the session's transcript nor the speaking time or
\* the sentiment of its participants.
C12_FinalizedImmutable ==
  [][(Finalized /\ (EventStep \/ markedLeft' # markedLeft)) =>
       /\ currentSession' # <<>>
       /\ currentSession'[1].totalTranscript = Session.totalTranscript
       /\ \A u \in Session.participants :
            /\ u \in DOMAIN participants'
            /\ participants'[u].totalTimeSpoken = TimeSpoken[u]
            /\ participants'[u].sentiment = Sentiment[u]]_vars

\* C13: after disconnect() the instance has no connection that is opening or
\* open.
C13_NoReconnectAfterDisconnect ==
  disconnectCalled => readyState \notin {"connecting", "open"}

\* C14: a reconnect is scheduled with a delay of 2000 ms times the number of
\* consecutive failures: 2000 after the first, 4000 after the second.
C14_ReconnectBackoff ==
  [][(timer = Null /\ timer' # Null) => timer' = 2000 * failures']_vars

\* C15: the third consecutive abnormal close without an open in between
\* schedules no reconnect and reports an error through the error callback.
C15_RetryExhaustion ==
  [][(failures = 2 /\ failures' = 3) =>
       (timer' = Null /\ readyState' = "closed" /\ connErrors' = connErrors + 1)]_vars

\* C16: the error callback is invoked for the connection only when the retry
\* budget is exhausted.
C16_TransientNotSurfaced ==
  [][connErrors' # connErrors => (reconnectAttempts >= 3 /\ timer' = Null)]_vars

\* C17: a chunk reaches WebSocket.send only in the sendAudio call it is passed
\* to and only when the socket is open then; otherwise it is dropped for good.
C17_SendOnlyWhileOpen ==
  [][IF lastChunk' # lastChunk
       THEN /\ sent' = sent \/ sent' = Append(sent, lastChunk'.id)
            /\ sent' # sent => readyState = "open"
       ELSE sent' = sent]_vars

\* chunk 1 was dropped, the connection closed and opened again, chunk 2 was sent
C17_Witness ==
  /\ sent = <<2>>
  /\ lastChunk = [id |-> 2, readyState |-> "open"]
  /\ nCloses >= 1

\* a step that handles one inbound message (lastMsg' is its kind)
MessageStep == nMessages' = nMessages + 1

\* C18: a malformed message makes one error callback, forwards no segment and
\* leaves the connection state and the reconnect counter as they were; a
\* message with text that comes after it is forwarded.
C18_MalformedMessage ==
  [][MessageStep =>
       /\ lastMsg' = "malformed" =>
            /\ parseErrors' = parseErrors + 1
            /\ transcriptionFailed'
            /\ nEvents' = nEvents /\ transcript' = transcript
            /\ UNCHANGED <<ws, readyState, isConnected, reconnectAttempts, timer>>
       /\ (parseErrors > 0 /\ lastMsg' = "text") =>
            /\ nEvents' = nEvents + 1
            /\ lastSegment' = MessageSegment]_vars

C18_Witness ==
  /\ nMessages = 2
  /\ parseErrors = 1
  /\ lastMsg = "text"
  /\ nEvents = 1
  /\ transcript = <<MessageSegment>>

\* C19: a message is forwarded to the transcript callback exactly when it has
\* non-empty transcript text; one with an empty or missing transcript makes no
\* segment and no error; nothing but a message forwards a segment.
C19_OnlyTextForwarded ==
  [][/\ MessageStep =>
          /\ nEvents' = (IF lastMsg' = "text" THEN nEvents + 1 ELSE nEvents)
          /\ lastMsg' \in {"empty", "missing"} =>
               /\ transcript' = transcript
               /\ UNCHANGED <<parseErrors, connErrors, transcriptionFailed>>
     /\ ~MessageStep => nEvents' = nEvents]_vars

C19_Witness ==
  /\ nMessages = 2
  /\ lastMsg \in {"empty", "missing"}
  /\ nEvents = 1
  /\ parseErrors = 0
  /\ connErrors = 0
  /\ ~transcriptionFailed

\* a step that handles one export request (lastExport' is its outcome)
ExportStep == lastExport'.id = lastExport.id + 1

\* C20: an export request with the xlsx format fails, produces no payload and
\* no download, and leaves the state of the service as it was.
C20_XlsxFails ==
  [][(ExportStep /\ lastExport'.format = "xlsx") =>
       /\ lastExport'.failed
       /\ lastExport'.payload = <<>>
       /\ exports' = exports
       /\ UNCHANGED <<currentSession, participants, speakerMapping>>]_vars

\* a finalized session with a segment, and the xlsx request on it failed
C20_Witness ==
  /\ Finalized
  /\ Session.totalTranscript # <<>>
  /\ lastExport.format = "xlsx"
  /\ lastExport.failed
  /\ exports = 0

\* a step that binds a speaker to a participant
MapStep == speakerMapping' # speakerMapping /\ nEvents' = nEvents

TranscriptOf(parts, u) == IF u \in DOMAIN parts THEN parts[u].transcript ELSE <<>>

\* C24: mapSpeakerToParticipant changes no participant, so the placeholder keeps
\* its segments and its speaking time and the bound participant gets none of
\* them; a segment that arrives afterwards is added to the participant the
\* speaker is bound to and to no other.
C24_NoRetroactiveRelabel ==
  [][/\ MapStep => participants' = participants
     /\ EventStep =>
          LET u == IF lastSegment'.speakerIndex \in DOMAIN speakerMapping
                     THEN speakerMapping[lastSegment'.speakerIndex]
                     ELSE UnknownId(lastSegment'.speakerIndex)
          IN /\ u \in DOMAIN participants'
             /\ participants'[u].transcript =
                  Append(TranscriptOf(participants, u), lastSegment')
             /\ \A v \in DOMAIN participants \ {u} :
                  /\ participants'[v].transcript = participants[v].transcript
                  /\ participants'[v].totalTimeSpoken = participants[v].totalTimeSpoken]_vars

\* speaker 0 spoke as the placeholder, was bound to alice, and spoke again
C24_Witness ==
  /\ 0 \in DOMAIN speakerMapping
  /\ speakerMapping[0] = <<"alice", 0>>
  /\ UnknownId(0) \in DOMAIN participants
  /\ <<"alice", 0>> \in DOMAIN participants
  /\ Len(participants[UnknownId(0)].transcript) = 1
  /\ participants[UnknownId(0)].totalTimeSpoken = 2000
  /\ Len(participants[<<"alice", 0>>].transcript) = 2

\* C25: after an event the participant the segment was attributed to has the
\* sentiment of the segment's text, and no other participant's sentiment changed.
C25_SentimentLastWriteWins ==
  [][EventStep =>
       LET u == IF lastSegment'.speakerIndex \in DOMAIN speakerMapping
                  THEN speakerMapping[lastSegment'.speakerIndex]
                  ELSE UnknownId(lastSegment'.speakerIndex)
       IN /\ u \in DOMAIN participants'
          /\ participants'[u].sentiment = AnalyzeSentiment(lastSegment'.text)
          /\ \A v \in DOMAIN participants \ {u} :
               participants'[v].sentiment = participants[v].sentiment]_vars

\* the pieces of a text in lower case
LowerPieces(text) ==
  [i \in 1..Len(text) |-> IF text[i] = "Bot" THEN "bot" ELSE text[i]]

\* a trigger phrase occurs in the text as a run of whole words
HasTriggerPhrase(text) ==
  \E trigger \in BotTriggers : Includes(LowerPieces(text), trigger)

\* C30: an event makes a bot response exactly when its lower-cased text has one
\* of the trigger phrases; otherwise the responses are unchanged.
C30_BotTrigger ==
  [][EventStep =>
       IF HasTriggerPhrase(lastSegment'.text)
         THEN Len(botResponses') = Len(botResponses) + 1
         ELSE botResponses' = botResponses]_vars

\* C21: the document decoded from a json export carries the participant count,
\* the total word count and the sentiment distribution getSessionSummary
\* returns for the state that was exported.
C21_ExportRoundTrip ==
  [][(ExportStep /\ lastExport'.format = "json" /\ lastExport'.payload # <<>>
      /\ "summary" \in DOMAIN lastExport'.payload[1]) =>
       LET decoded == lastExport'.payload[1].summary
           summary == GetSessionSummary(currentSession, participants, now)
       IN /\ decoded.totalParticipants = summary.totalParticipants
          /\ decoded.totalParticipants = Cardinality(DOMAIN lastExport'.payload[1].participants)
          /\ decoded.totalWords = summary.totalWords
          /\ decoded.sentimentDistribution = summary.sentimentDistribution]_vars

\* two participants with words, one of them positive, exported without transcripts
C21_Witness ==
  /\ lastExport.format = "json"
  /\ "options" \in DOMAIN lastExport
  /\ ~lastExport.options.includeTranscript
  /\ lastExport.payload[1].summary.totalParticipants = 2
  /\ lastExport.payload[1].summary.totalWords >= 4
  /\ lastExport.payload[1].summary.sentimentDistribution.positive = 1

\* the non-empty tokens of all segments of a participant
NonEmptyTokens(text) == Cardinality({i \in 1..Len(text) : text[i] # ""})

RECURSIVE TokensIn(_)
TokensIn(segs) ==
  IF segs = <<>> THEN 0 ELSE NonEmptyTokens(Head(segs).text) + TokensIn(Tail(segs))

WordsOf(p) == TokensIn(p.transcript)

\* C22: the summary's totalWords and the csv 'Words Spoken' cells count the
\* non-empty tokens of the segments' texts, so the total is the sum of the cells.
C22_WordCountPolicy ==
  [][(ExportStep /\ "options" \in DOMAIN lastExport') =>
       /\ GetSessionSummary(currentSession, participants, now).totalWords =
            SumOver(DOMAIN participants, [u \in DOMAIN participants |-> WordsOf(participants[u])])
       /\ (lastExport'.format = "csv" /\ lastExport'.options.includeTranscript) =>
            \A u \in DOMAIN participants :
              lastExport'.payload[1].rows[u][7] = WordsOf(participants[u])]_vars

\* C23: a csv payload has the header and one row per participant, each row as
\* long as the header (7 cells, 9 with includeSentiment), and the word-count
\* cell is the word count of the participant's segments whatever the flags.
C23_TabularShape ==
  [][(ExportStep /\ lastExport'.format = "csv" /\ "options" \in DOMAIN lastExport') =>
       LET table == lastExport'.payload[1]
       IN /\ Len(table.header) = IF lastExport'.options.includeSentiment THEN 9 ELSE 7
          /\ DOMAIN table.rows = DOMAIN participants
          /\ \A u \in DOMAIN participants :
               /\ Len(table.rows[u]) = Len(table.header)
               /\ table.rows[u][7] = SumCountWords(participants[u].transcript)]_vars

\* the host name is a listed domain or a subdomain of one
EndsWith(s, t) == Len(s) >= Len(t) /\ SubSeq(s, Len(s) - Len(t) + 1, Len(s)) = t

OnAllowList(url) ==
  /\ url.kind = "url"
  /\ \E domain \in ValidDomains :
       url.hostname = domain \/ EndsWith(url.hostname, <<".">> \o domain)

\* the host answers a join request
JoinHandledStep ==
  /\ requests # <<>>
  /\ Head(requests).channel = "join-meeting"
  /\ requests' = Tail(requests)

\* C26: a join request whose URL is not on the allow-list, or is not a URL, is
\* answered with success = false and no meeting window is created for it; the
\* application enters a meeting and starts a session only for a listed URL.
C26_InvalidUrlRejected ==
  [][/\ (JoinHandledStep /\ ~OnAllowList(Head(requests).url)) =>
          /\ ~replies'[Len(replies')].success
          /\ meetingWindow' = meetingWindow
     /\ (isInMeeting' /\ ~isInMeeting) => OnAllowList(joinedUrl')
     /\ (currentSession' # <<>> /\ currentSession = <<>>) => OnAllowList(joinedUrl')]_vars

\* startAudioCapture threw: handleStartAnalysis ends in its catch block
CaptureFailedStep == startPending /\ ~startPending' /\ recorder' = "none"

\* C27: when no audio source is available the start fails: isRecording is false,
\* no recorder runs, and no recognition connection is left connecting or open
\* nor scheduled to reconnect.
C27_NoAudioSourceFatal ==
  [][CaptureFailedStep =>
       /\ ~isRecording'
       /\ recorder' # "recording"
       /\ readyState' \notin {"connecting", "open"}
       /\ timer' = Null]_vars

\* handleLeaveMeeting ran to its end
LeaveCompletedStep ==
  \/ /\ replies # <<>>
     /\ Head(replies).channel = "close-meeting"
     /\ replies' = Tail(replies)
  \/ ~electronAPI /\ isInMeeting /\ ~isInMeeting'

\* C28: a leave of a live session stops the recorder, finalizes the session and
\* exports it once, in every path; a session that is already finalized is not
\* exported again; and once the leave has disconnected the service, no new
\* connection is made and no reconnect stays scheduled.
C28_LeaveTeardown ==
  [][/\ LeaveCompletedStep =>
          /\ recorder' # "recording"
          /\ ~isRecording'
          /\ currentSession # <<>> =>
               /\ Finalized'
               /\ exports' = IF Finalized THEN exports ELSE exports + 1
     /\ (currentSession # <<>> /\ disconnectCalled /\ ~isInMeeting /\ ~startPending) =>
          /\ readyState' = "connecting" => readyState = "connecting"
          /\ timer' = Null]_vars

\* the chunk numbers grow along the sequence
Increasing(chunks) == \A i \in 1..(Len(chunks) - 1) : chunks[i] < chunks[i + 1]

\* C29: the chunks are sent to the backend in the order the recorder delivered
\* them, and each recognition event is applied to the transcript and to the
\* aggregator in one step, in the order the events are received.
C29_ArrivalOrder ==
  [][/\ Increasing(sent')
     /\ EventStep =>
          /\ transcript' = Reconcile(transcript, lastSegment')
          /\ currentSession' = AddSegmentToSession(currentSession, lastSegment')]_vars

\* the positions of the transcript whose segment is within the window of e
HitsOf(slots, e) == {i \in 1..Len(slots) : InWindow(slots[i], e)}

LastOf(S) == CHOOSE i \in S : \A j \in S : j <= i

\* C31: when more than one same-speaker segment is within the tolerance window
\* of an event, the event replaces the last of them in the transcript.
C31_BackwardSearch ==
  [][(EventStep /\ Cardinality(HitsOf(transcript, lastSegment')) > 1) =>
       LET last == LastOf(HitsOf(transcript, lastSegment'))
       IN /\ transcript'[last] = lastSegment'
          /\ \A j \in 1..Len(transcript) : j # last => transcript'[j] = transcript[j]]_vars

\* of the results the backend gives for an utterance, the final one is the one
\* with the whole text; the one with less text is interim
IsFinalResult(segment) == segment.text = <<"hello", "everyone", "welcome">>

SameSlot(s, e) == s.speakerIndex = e.speakerIndex /\ s.startTime = e.startTime

\* C32: a final result replaces the interim result in the slot of its
\* utterance, and a slot that holds the final result of an utterance keeps it
\* when an interim result of that utterance is delivered afterwards.
C32_FinalSupersedesInterim ==
  [][EventStep =>
       LET e == lastSegment'
           i == FindIndex(transcript, e)
       IN (i # 0 /\ SameSlot(transcript[i], e)) =>
            /\ (IsFinalResult(e) /\ ~IsFinalResult(transcript[i])) => transcript'[i] = e
            /\ (~IsFinalResult(e) /\ IsFinalResult(transcript[i])) =>
                 transcript'[i] = transcript[i]]_vars

\* the positions of the old transcript whose content an event changed
ChangedSlots == {i \in 1..Len(transcript) : transcript'[i] # transcript[i]}

\* C37: an event changes at most one slot of the transcript; the length never
\* decreases and grows by at most one, and only when no slot changed; the
\* other slots keep their content and their position; no slot ever changes
\* its speakerIndex.
C37_ReconciliationFrame ==
  [][EventStep =>
       /\ Len(transcript') \in {Len(transcript), Len(transcript) + 1}
       /\ Cardinality(ChangedSlots) <= 1
       /\ Len(transcript') = Len(transcript) + 1 => ChangedSlots = {}
       /\ \A i \in 1..Len(transcript) :
            transcript'[i].speakerIndex = transcript[i].speakerIndex]_vars

\* a revision replaced the first of three slots of two speakers
C37_Witness ==
  /\ nEvents = 4
  /\ Len(transcript) = 3
  /\ transcript[1] = lastSegment
  /\ Session.totalTranscript[1] # lastSegment
  /\ transcript[2].speakerIndex # transcript[1].speakerIndex
  /\ transcript[3].speakerIndex = transcript[1].speakerIndex

\* C33: reconnectAttempts stays within 0..3 and is 0 after every open, so at
\* most 3 reconnects are made between two opens; when the backend never
\* accepts a connection the client ends closed (or never connected) with no
\* timer pending.
C33_RetryCounterBounds ==
  /\ [](reconnectAttempts \in 0..3)
  /\ [][(readyState = "connecting" /\ readyState' = "open") => reconnectAttempts' = 0]_vars
  /\ [](readyState # "open") => <>[](timer = Null /\ readyState \in {"none", "closed"})

\* the budget is used up without an open: four failures, three reconnects
C33_Witness ==
  /\ failures = 4
  /\ reconnectAttempts = 3
  /\ readyState = "closed"
  /\ timer = Null
  /\ ~isConnected

\* the speaker indexes of the segments the aggregator was given
SpeakersSeen(session) ==
  {session.totalTranscript[k].speakerIndex : k \in 1..Len(session.totalTranscript)}

\* the userIds that were bound to a speaker index by an explicit mapping
MappedUsers(mapping) == {mapping[i] : i \in DOMAIN mapping} \cap UserIds

LastSeg(p) == p.transcript[Len(p.transcript)]

\* C34: the first segment of a speaker index that has no mapping creates the
\* one participant unknown_<index> and binds the index to it; a later segment
\* of an index bound to its placeholder goes to that participant and creates
\* none; there are never more participants than speaker indexes seen plus
\* userIds mapped explicitly.
C34_LazyParticipantCreation ==
  [][EventStep =>
       LET e == lastSegment'
           i == e.speakerIndex
           u == UnknownId(i)
       IN /\ i \notin DOMAIN speakerMapping =>
               /\ DOMAIN participants' = DOMAIN participants \cup {u}
               /\ i \in DOMAIN speakerMapping' /\ speakerMapping'[i] = u
               /\ LastSeg(participants'[u]) = e
               /\ u \notin DOMAIN participants => Len(participants'[u].transcript) = 1
          /\ (i \in DOMAIN speakerMapping /\ speakerMapping[i] = u) =>
               /\ DOMAIN participants' = DOMAIN participants
               /\ speakerMapping' = speakerMapping
               /\ participants'[u].transcript = Append(participants[u].transcript, e)
          /\ Cardinality(DOMAIN participants') <=
               Cardinality(SpeakersSeen(currentSession'[1]))
                 + Cardinality(MappedUsers(speakerMapping'))]_vars

\* two segments of speaker 0 and one of speaker 1, no explicit mapping
C34_Witness ==
  /\ nEvents = 3
  /\ DOMAIN participants = {UnknownId(0), UnknownId(1)}
  /\ speakerMapping = [i \in {0, 1} |-> UnknownId(i)]
  /\ Len(participants[UnknownId(0)].transcript) = 2
  /\ Len(participants[UnknownId(1)].transcript) = 1

SpeakersIn(slots) == {slots[k].speakerIndex : k \in 1..Len(slots)}

\* C35: the participant or speaker count of a bot response is the number of
\* distinct speakers in the reconciled transcript at the time of the event
\* (before or after the event itself is reconciled).
C35_BotResponseContext ==
  [][(EventStep /\ Len(botResponses') = Len(botResponses) + 1) =>
       LET response == botResponses'[Len(botResponses')]
       IN response.kind \in {"summary", "who"} =>
            response.count \in {Cardinality(SpeakersIn(transcript)),
                                Cardinality(SpeakersIn(transcript'))}]_vars

\* C36: every participant's totalTimeSpoken is the sum of endTime - startTime
\* over the segments of its own transcript, and is not negative, after any
\* sequence of addParticipant, mapSpeakerToParticipant, addTranscriptSegment,
\* markParticipantLeft and endSession calls.
C36_SpeakingTimeConsistent ==
  \A userId \in DOMAIN participants :
    /\ participants[userId].totalTimeSpoken = SumDurations(participants[userId].transcript)
    /\ participants[userId].totalTimeSpoken >= 0

\* a participant added by addParticipant spoke as speaker 0 and as speaker 1
\* and then left
C36_Witness ==
  \E userId \in UserIds :
    /\ userId \in DOMAIN participants
    /\ lastCall.userId = userId
    /\ Len(participants[userId].transcript) = 2
    /\ SpeakersIn(participants[userId].transcript) = {0, 1}
    /\ participants[userId].totalTimeSpoken = 3000
    /\ participants[userId].leaveTimestamp # Null

\* a call of addParticipant
AddParticipantStep == lastCall'.id # lastCall.id

\* C40: a call of addParticipant for a userId that exists changes neither the
\* participants (name, joinTimestamp, transcript, totals, sentiment) nor the
\* speaker mapping, whatever speakerIndex is passed.
C40_AddParticipantIdempotent ==
  [][(AddParticipantStep /\ lastCall'.userId \in DOMAIN participants) =>
       /\ participants' = participants
       /\ speakerMapping' = speakerMapping]_vars

\* the latest call named a participant that has a segment, with another name
\* and with a speaker index that is not bound to it
C40_Witness ==
  /\ lastCall.userId \in DOMAIN participants
  /\ participants[lastCall.userId].userName # lastCall.userName
  /\ participants[lastCall.userId].transcript # <<>>
  /\ lastCall.speakerIndex # Null
  /\ \/ lastCall.speakerIndex \notin DOMAIN speakerMapping
     \/ speakerMapping[lastCall.speakerIndex] # lastCall.userId

\* startSession on a service whose session was ended
StartAfterEndStep ==
  /\ currentSession # <<>>
  /\ currentSession[1].endTime # Null
  /\ currentSession' # <<>>
  /\ currentSession'[1].endTime = Null

\* C39: a session started after the previous one was ended begins with no
\* participants (so with no accumulated speaking time) and no speaker mapping.
C39_FreshSession ==
  [][StartAfterEndStep => participants' = <<>> /\ speakerMapping' = <<>>]_vars

\* C38: with a recognition client configured, every segment applied to the
\* transcript and the aggregator comes with a message of the backend.
C38_NoFabricatedSegments ==
  [][(apiKeySet /\ EventStep) => nMessages' = nMessages + 1]_vars

====
